---------------------------- MODULE Spec2Model ----------------------------
(***************************************************************************)
(* A model of rubicon_ml.viz.dataframe_plot.DataframePlot: the widget      *)
(* that loads the dataframe named `dataframe_name` from each of its        *)
(* experiments into one combined table (load_experiment_data) and renders  *)
(* a filtered view of it on every callback (update_dataframe_plot).        *)
(*                                                                         *)
(* Python values are modelled as follows.                                  *)
(*   - a str that the code slices (an experiment id, a series name) is a   *)
(*     sequence of characters, a character being a number;                 *)
(*   - any other str is a TLA+ string, and None among such strings is the  *)
(*     token None;                                                         *)
(*   - a dict is a function whose DOMAIN is the set of its keys;           *)
(*   - a list is a sequence; a value that is either None or a list (or a   *)
(*     table) is a record with the flag `none`;                            *)
(*   - a pandas DataFrame is a record of its column names (in order) and   *)
(*     its rows (in order); a row carries its index label `idx`, where it  *)
(*     came from (`src`, `k`: row k of the dataframe of experiment src)    *)
(*     and, once tagged, its cell in the column "experiment_id".           *)
(***************************************************************************)
EXTENDS Integers, Sequences, FiniteSets, TLC

(***************************************************************************)
(* Bounds of the model.                                                    *)
(***************************************************************************)
\* experiments that exist in the project
NumExps == 2
\* largest number of rows of a logged dataframe
MaxRows == 2
\* widgets that may be constructed
NumWidgets == 2
\* longest selection the experiment table hands to the callback
MaxSel == 2

Exps == 1..NumExps
Widgets == 1..NumWidgets

(***************************************************************************)
(* Program constants.                                                      *)
(***************************************************************************)
\* df_figure_margin = 30
df_figure_margin == 30
\* the slice bound of name[:7]
LegendLen == 7

None == "None"
plot_background_blue == "plot_background_blue"
\* the one dataframe name the widgets of the model are constructed with
dataframe_name == "df"

Min(a, b) == IF a < b THEN a ELSE b

(***************************************************************************)
(* The experiments and the dataframes logged to them.                      *)
(***************************************************************************)
\* experiment.id: a str; the experiments' ids differ, and are both longer
\* than, as long as, and shorter than the legend's 7 characters
IdOf(e) == [i \in 1..(9 - e) |-> 10 * e + i]

\* the column lists of the dataframes that may be logged: no column, one
\* column, and two columns of which the first is not the one-column
\* schema's
Schemas == { <<>>, <<"a">>, <<"b", "a">> }

NoDataframe == [has |-> FALSE, cols |-> <<>>, nrows |-> 0]

\* what may be logged to one experiment under dataframe_name: nothing, or
\* a dataframe of one of the schemas with up to MaxRows rows (a dataframe
\* without columns is pd.DataFrame(), which has no rows)
Logged ==
  {NoDataframe} \cup
  { d \in [has : {TRUE}, cols : Schemas, nrows : 0..MaxRows] :
      d.cols = <<>> => d.nrows = 0 }

VARIABLES
  \* store[e]: the dataframe logged to experiment e under dataframe_name
  store,
  \* widgets[w]: the fields of the DataframePlot instance w
  widgets,
  \* the dict object that is the default value of plotting_func_kwargs,
  \* created once, when __init__ is defined
  default_kwargs,
  \* the last call made: what it was given, returned, raised and warned
  ret,
  \* the first render's selection and outputs since the callbacks of a
  \* widget were registered
  pinned

vars == <<store, widgets, default_kwargs, ret, pinned>>

(***************************************************************************)
(* Values.                                                                 *)
(***************************************************************************)
EmptyDict == [k \in {} |-> 0]

DictSet(d, key, v) == [k \in DOMAIN d \cup {key} |-> IF k = key THEN v ELSE d[k]]

NoneDF == [none |-> TRUE, cols |-> <<>>, rows |-> <<>>]

NoneList == [none |-> TRUE, list |-> <<>>]

ListOf(s) == [none |-> FALSE, list |-> s]

NoError == [type |-> "", msg |-> <<>>]

Raise(type, msg) == [type |-> type, msg |-> msg]

\* raise Exception(f"No dataframe with name {self.dataframe_name} found!")
NoDataFound(name) == Raise("Exception", <<"No dataframe with name ", name, " found!">>)

\* warnings.warn(f"Experiment {experiment.id} does not have any dataframes logged to it.")
Warning(id) == <<"Experiment ", id, " does not have any dataframes logged to it.">>

NoFigure == [none |-> TRUE, table |-> NoneDF, x |-> None, y |-> None,
             kwargs |-> EmptyDict, names |-> <<>>,
             margin_t |-> 0, plot_bgcolor |-> None]

NoCall == [op |-> "", w |-> 0, raised |-> NoError, warnings |-> <<>>,
           sel |-> NoneList, figure |-> NoFigure, header |-> <<>>]

NoPin == [set |-> FALSE, w |-> 0, sel |-> NoneList, figure |-> NoFigure,
          header |-> <<>>, others |-> FALSE]

NoWidget == [constructed |-> FALSE, experiments |-> NoneList,
             kwargs_ref |-> "default", own_kwargs |-> EmptyDict,
             arg_kwargs |-> EmptyDict,
             arg_x |-> None, arg_y |-> None, x |-> None, y |-> None,
             data_df |-> NoneDF, callback |-> "none"]

(***************************************************************************)
(* pandas.                                                                 *)
(***************************************************************************)
\* dataframe.get_data(): the logged table, its index 0 .. nrows-1
GetData(e) ==
  [none |-> FALSE,
   cols |-> store[e].cols,
   rows |-> [k \in 1..store[e].nrows |->
               [src |-> e, k |-> k, idx |-> k - 1, experiment_id |-> <<>>]]]

SeqContains(s, v) == \E i \in 1..Len(s) : s[i] = v

\* data_df["experiment_id"] = experiment.id: a new last column, or the
\* column of that name overwritten; every row gets the id
TagExperimentId(df, id) ==
  [none |-> FALSE,
   cols |-> IF SeqContains(df.cols, "experiment_id") THEN df.cols
            ELSE Append(df.cols, "experiment_id"),
   rows |-> [i \in 1..Len(df.rows) |-> [df.rows[i] EXCEPT !.experiment_id = id]]]

\* the columns of b that a has not, in b's order
RECURSIVE NewColumns(_, _)
NewColumns(a, b) ==
  IF b = <<>> THEN <<>>
  ELSE IF SeqContains(a, Head(b)) THEN NewColumns(a, Tail(b))
       ELSE <<Head(b)>> \o NewColumns(Append(a, Head(b)), Tail(b))

\* pd.concat([a, b]): the rows of a, then those of b, the index labels
\* kept; the columns of a, then the ones only b has
ConcatKeepsLast(a, b) == b

Concat(a, b) ==
  [none |-> FALSE,
   cols |-> a.cols \o NewColumns(a.cols, b.cols),
   rows |-> a.rows \o b.rows]

\* df.reset_index(drop=True): the index becomes 0 .. n-1
ResetIndex(df) ==
  [df EXCEPT !.rows = [i \in 1..Len(df.rows) |-> [df.rows[i] EXCEPT !.idx = i - 1]]]

\* df.empty: some axis has length 0
IsEmpty(df) == Len(df.cols) = 0 \/ Len(df.rows) = 0

\* df[df["experiment_id"].isin(ids)]: the rows whose cell is among ids, in
\* order, their index labels kept
RECURSIVE FilterRows(_, _)
FilterRows(rows, ids) ==
  IF rows = <<>> THEN <<>>
  ELSE IF SeqContains(ids, Head(rows).experiment_id)
       THEN <<Head(rows)>> \o FilterRows(Tail(rows), ids)
       ELSE FilterRows(Tail(rows), ids)

IsIn(df, ids) == [df EXCEPT !.rows = FilterRows(@, ids)]

(***************************************************************************)
(* DataframePlot.__init__                                                  *)
(***************************************************************************)
\* self.plotting_func_kwargs: the dict the widget's field refers to
KwargsOf(wd) ==
  IF wd.kwargs_ref = "default" THEN default_kwargs ELSE wd.own_kwargs

\* DataframePlot(dataframe_name, experiments, plotting_func_kwargs, x, y):
\* when the caller gives no plotting_func_kwargs, the field refers to the
\* default value's one dict object; when it gives a dict, to that dict.
\* arg_kwargs, arg_x and arg_y keep what the caller gave.
DataframePlot(w, experiments, kwargs_arg, x, y) ==
  /\ ~widgets[w].constructed
  /\ widgets' = [widgets EXCEPT ![w] =
       [constructed |-> TRUE,
        experiments |-> experiments,
        kwargs_ref  |-> IF kwargs_arg.given THEN "own" ELSE "default",
        own_kwargs  |-> kwargs_arg.dict,
        arg_kwargs  |-> kwargs_arg.dict,
        arg_x |-> x, arg_y |-> y, x |-> x, y |-> y,
        data_df |-> NoneDF, callback |-> "none"]]
  /\ ret' = [NoCall EXCEPT !.op = "init", !.w = w]
  /\ UNCHANGED <<store, default_kwargs, pinned>>

(***************************************************************************)
(* DataframePlot.load_experiment_data                                      *)
(***************************************************************************)
\* the loop's variables: self.x, self.y, self.data_df, the warnings issued
\* so far and the exception that left the loop, if one did
LoopStartKeepsTable(wd) ==
  [x |-> wd.x, y |-> wd.y, data_df |-> wd.data_df, warnings |-> <<>>, raised |-> NoError]

LoopStart(wd) ==
  [x |-> wd.x, y |-> wd.y, data_df |-> NoneDF, warnings |-> <<>>, raised |-> NoError]

\* experiment.dataframe(name=self.dataframe_name) raises when no dataframe
\* of that name is logged to the experiment
FetchRaises(e) == ~store[e].has

\* except: warnings.warn(...); continue
FetchFailureRaises(st, e) ==
  [st EXCEPT !.raised = Raise("RubiconException", <<"No dataframe with name ", dataframe_name, " found.">>)]

FetchFailure(st, e) ==
  [st EXCEPT !.warnings = Append(@, Warning(IdOf(e)))]

\* data_df.columns[i] of Python (0-based): IndexError past the end
ColumnRaises(df, i) == i + 1 > Len(df.cols)

Column(df, i) == df.cols[i + 1]

\* the body of the loop for an experiment whose dataframe was fetched
Loaded(st, e) ==
  LET data_df == TagExperimentId(GetData(e), IdOf(e))
      x == IF st.x = None THEN Column(data_df, 0) ELSE st.x
  IN  IF st.x = None /\ ColumnRaises(data_df, 0)
        THEN [st EXCEPT !.raised = Raise("IndexError", <<"index 0 is out of bounds">>)]
      ELSE IF st.y = None /\ ColumnRaises(data_df, 1)
        THEN [st EXCEPT !.x = x,
                        !.raised = Raise("IndexError", <<"index 1 is out of bounds">>)]
      ELSE [st EXCEPT
              !.x = x,
              !.y = IF st.y = None THEN Column(data_df, 1) ELSE st.y,
              !.data_df = ResetIndex(IF st.data_df.none THEN data_df
                                     ELSE Concat(st.data_df, data_df))]

\* for experiment in self.experiments: ...   from the i-th experiment on
RECURSIVE Loop(_, _, _)
Loop(experiments, i, st) ==
  IF i > Len(experiments) \/ st.raised # NoError THEN st
  ELSE IF FetchRaises(experiments[i])
         THEN Loop(experiments, i + 1, FetchFailure(st, experiments[i]))
       ELSE Loop(experiments, i + 1, Loaded(st, experiments[i]))

\* get_rubicon_colorscale(n): a colour sequence of n colours
get_rubicon_colorscale(n) == [i \in 1..n |-> i]

\* the defaults of lines 120-125, set in the dict the field refers to
WithDefaults(kwargs, n) ==
  LET c == IF "color" \notin DOMAIN kwargs
             THEN DictSet(kwargs, "color", "experiment_id") ELSE kwargs
  IN  IF "color_discrete_sequence" \notin DOMAIN c
        THEN DictSet(c, "color_discrete_sequence", get_rubicon_colorscale(n))
      ELSE c

\* try: if self.data_df.empty: raise Exception(...)
\* except: if self.data_df == None: raise Exception(...)
\*   None.empty raises AttributeError, which the bare except catches, and
\*   None == None; for a DataFrame, the Exception raised in the try is
\*   caught too, and the truth value of `DataFrame == None`, a DataFrame,
\*   raises ValueError
EmptinessCheck(data_df) ==
  IF data_df.none THEN NoDataFound(dataframe_name)
  ELSE IF IsEmpty(data_df)
         THEN Raise("ValueError", <<"The truth value of a DataFrame is ambiguous.">>)
       ELSE NoError

load_experiment_data(w) ==
  LET wd == widgets[w] IN
  /\ wd.constructed
  /\ IF wd.experiments.none
       \* for experiment in None
       THEN /\ widgets' = [widgets EXCEPT ![w].data_df = NoneDF]
            /\ ret' = [NoCall EXCEPT !.op = "load", !.w = w,
                         !.raised = Raise("TypeError", <<"'NoneType' object is not iterable">>)]
            /\ UNCHANGED default_kwargs
     ELSE
       LET st == Loop(wd.experiments.list, 1, LoopStart(wd))
           after == [wd EXCEPT !.x = st.x, !.y = st.y, !.data_df = st.data_df]
           kwargs == WithDefaults(KwargsOf(wd), Len(wd.experiments.list))
       IN  IF st.raised # NoError
             THEN /\ widgets' = [widgets EXCEPT ![w] = after]
                  /\ ret' = [NoCall EXCEPT !.op = "load", !.w = w,
                               !.raised = st.raised, !.warnings = st.warnings]
                  /\ UNCHANGED default_kwargs
           ELSE /\ widgets' = [widgets EXCEPT ![w] =
                     IF wd.kwargs_ref = "default" THEN after
                     ELSE [after EXCEPT !.own_kwargs = kwargs]]
                /\ default_kwargs' =
                     IF wd.kwargs_ref = "default" THEN kwargs ELSE default_kwargs
                /\ ret' = [NoCall EXCEPT !.op = "load", !.w = w,
                             !.raised = EmptinessCheck(st.data_df),
                             !.warnings = st.warnings]
  /\ pinned' = IF pinned.w = w THEN NoPin ELSE pinned
  /\ UNCHANGED store

(***************************************************************************)
(* DataframePlot.register_callbacks and the callback update_dataframe_plot *)
(***************************************************************************)
\* the widget is served: VizBase builds the layout, which loads the
\* experiment data, and registers the callbacks only when the load has not
\* raised
Served(w) == ret.op = "load" /\ ret.w = w /\ ret.raised = NoError

register_callbacks(w, link_experiment_table) ==
  /\ widgets[w].constructed
  /\ widgets[w].callback = "none"
  /\ Served(w)
  /\ widgets' = [widgets EXCEPT ![w].callback =
                   IF link_experiment_table THEN "linked" ELSE "unlinked"]
  /\ ret' = [NoCall EXCEPT !.op = "register", !.w = w]
  /\ pinned' = IF pinned.w = w THEN NoPin ELSE pinned
  /\ UNCHANGED <<store, default_kwargs>>

\* lines 154-158: args[-1] is the table's derived_virtual_selected_row_ids,
\* None or a list of ids, when the table is linked
SelectsEverything(wd, last_arg) ==
  [i \in 1..Len(wd.experiments.list) |-> IdOf(wd.experiments.list[i])]

SelectedRowIds(wd, last_arg) ==
  IF wd.callback = "linked"
    THEN IF ~last_arg.none /\ last_arg.list # <<>> THEN last_arg.list ELSE <<>>
  ELSE [i \in 1..Len(wd.experiments.list) |-> IdOf(wd.experiments.list[i])]

\* the text of row k of the dataframe of experiment e, in any of its own
\* columns
CellText(e, k) == [i \in 1..(5 + 2 * k) |-> 100 * e + k]

\* str(df[col]) of a row
Cell(row, col) ==
  IF col = "experiment_id" THEN row.experiment_id ELSE CellText(row.src, row.k)

\* the distinct values of a column, in order of first appearance
RECURSIVE Groups(_, _, _)
Groups(rows, col, seen) ==
  IF rows = <<>> THEN seen
  ELSE Groups(Tail(rows), col,
              IF SeqContains(seen, Cell(Head(rows), col)) THEN seen
              ELSE Append(seen, Cell(Head(rows), col)))

\* self.plotting_func(table, x, y, **kwargs), for plotly.express.line: one
\* series for each value of the colour column, named after the value, and
\* one unnamed series when there is no row or no colour column
PlottingFunc(table, x, y, kwargs) ==
  [none |-> FALSE, table |-> table, x |-> x, y |-> y, kwargs |-> kwargs,
   names |-> IF table.rows = <<>> \/ "color" \notin DOMAIN kwargs THEN << <<>> >>
             ELSE Groups(table.rows, kwargs["color"], <<>>),
   margin_t |-> 0, plot_bgcolor |-> None]

\* name[:7]
KeepsName(name) == name

Truncate(name) == SubSeq(name, 1, Min(LegendLen, Len(name)))

\* f"showing dataframe '{name}' over {k} experiment{'s' if k != 1 else ''}"
HeaderTextPluralAboveOne(name, k) ==
  <<"showing dataframe '", name, "' over ", k, " experiment", IF k > 1 THEN "s" ELSE "">>

HeaderText(name, k) ==
  <<"showing dataframe '", name, "' over ", k, " experiment", IF k # 1 THEN "s" ELSE "">>

\* the widget's fields after a render that was handed `table`: the
\* callback assigns to none of them
KeepsFilteredTable(wd, table) == [wd EXCEPT !.data_df = table]

AfterRender(wd, table) == wd

\* update_dataframe_plot(*args), args[-1] = last_arg
update_dataframe_plot(w, last_arg) ==
  LET wd == widgets[w]
      selected_row_ids == SelectedRowIds(wd, last_arg)
      table == IsIn(wd.data_df, selected_row_ids)
      plotted == PlottingFunc(table, wd.x, wd.y, KwargsOf(wd))
      df_figure == [plotted EXCEPT
                      !.margin_t = df_figure_margin,
                      !.plot_bgcolor = plot_background_blue,
                      !.names = [i \in 1..Len(@) |-> Truncate(@[i])]]
      header_text == HeaderText(dataframe_name, Len(selected_row_ids))
  IN
  /\ wd.callback # "none"
  /\ wd.callback = "unlinked" => last_arg.none
  /\ IF wd.data_df.none
       \* None["experiment_id"]
       THEN /\ ret' = [NoCall EXCEPT !.op = "render", !.w = w, !.sel = last_arg,
                         !.raised = Raise("TypeError", <<"'NoneType' object is not subscriptable">>)]
            /\ UNCHANGED <<widgets, pinned>>
     ELSE /\ ret' = [NoCall EXCEPT !.op = "render", !.w = w, !.sel = last_arg,
                       !.figure = df_figure, !.header = header_text]
          /\ widgets' = [widgets EXCEPT ![w] = AfterRender(wd, table)]
          /\ pinned' =
               IF ~pinned.set
                 THEN [set |-> TRUE, w |-> w, sel |-> last_arg, figure |-> df_figure,
                       header |-> header_text, others |-> FALSE]
               ELSE IF pinned.w = w /\ pinned.sel # last_arg
                 THEN [pinned EXCEPT !.others = TRUE]
               ELSE pinned
  /\ UNCHANGED <<store, default_kwargs>>

(***************************************************************************)
(* The environment and the callers.                                        *)
(***************************************************************************)
\* the sequences of n distinct elements of S
RECURSIVE Arrangements(_, _)
Arrangements(S, n) ==
  IF n = 0 THEN { <<>> }
  ELSE UNION { { Append(s, e) : e \in S \ { s[i] : i \in 1..Len(s) } } :
               s \in Arrangements(S, n - 1) }

\* the lists of distinct experiments
ExperimentLists == UNION { Arrangements(Exps, n) : n \in 0..NumExps }

\* the `experiments` argument: None (the default) or a list of experiments
ExperimentsArgs == {NoneList} \cup { ListOf(s) : s \in ExperimentLists }

\* the plotting_func_kwargs argument: not given, or a dict of the caller's
NotGiven == [given |-> FALSE, dict |-> EmptyDict]

Given(d) == [given |-> TRUE, dict |-> d]

\* the x and y arguments: None (the default) or a column name
XArgs == {None, "b"}
YArgs == {None, "a"}

\* the dataframe logged to an experiment is deleted: later fetches of it
\* raise.  Deletions before a widget's first successful load are the
\* initial states with fewer dataframes, so only the ones that follow a
\* successful load are steps.
delete_dataframe(e) ==
  /\ store[e].has
  /\ ret.op = "load" /\ ret.raised = NoError
  /\ store' = [store EXCEPT ![e] = NoDataframe]
  /\ ret' = NoCall
  /\ UNCHANGED <<widgets, default_kwargs, pinned>>

(***************************************************************************)
(* One widget, constructed with any experiments, x and y, and loaded, over *)
(* any dataframes logged to the experiments.                               *)
(***************************************************************************)
Init ==
  /\ store \in [Exps -> Logged]
  /\ widgets = [w \in Widgets |-> NoWidget]
  /\ default_kwargs = EmptyDict
  /\ ret = NoCall
  /\ pinned = NoPin

Next ==
  \/ \E experiments \in ExperimentsArgs, x \in XArgs, y \in YArgs :
       DataframePlot(1, experiments, NotGiven, x, y)
  \/ load_experiment_data(1)
  \/ \E e \in Exps : delete_dataframe(e)

Spec == Init /\ [][Next]_vars

(***************************************************************************)
(* One widget, constructed over experiments that have a two-column         *)
(* dataframe or none, loaded, served with or without the experiment        *)
(* table, and rendered for any selections.                                 *)
(***************************************************************************)
\* what the linked table hands over: None, or a list of distinct ids
Selections ==
  {NoneList} \cup
  { ListOf([i \in 1..Len(s) |-> IdOf(s[i])]) :
      s \in UNION { Arrangements(Exps, n) : n \in 0..Min(MaxSel, NumExps) } }

ListArgs == { ListOf(s) : s \in ExperimentLists }

InitRender ==
  /\ store \in [Exps -> {NoDataframe}] \cup
       { f \in [Exps -> Logged] :
           \A e \in Exps :
             f[e].has => f[e].cols = <<"b", "a">> /\ f[e].nrows = Min(e, MaxRows) }
  /\ widgets = [w \in Widgets |-> NoWidget]
  /\ default_kwargs = EmptyDict
  /\ ret = NoCall
  /\ pinned = NoPin

NextRender ==
  \/ \E experiments \in ListArgs, kwargs \in {NotGiven, Given([color |-> "a"])} :
       DataframePlot(1, experiments, kwargs, None, None)
  \/ load_experiment_data(1)
  \/ \E link \in BOOLEAN : register_callbacks(1, link)
  \/ \E last_arg \in Selections : update_dataframe_plot(1, last_arg)

SpecRender == InitRender /\ [][NextRender]_vars

(***************************************************************************)
(* Several widgets, constructed with and without plotting_func_kwargs over *)
(* one or more experiments and loaded in any order; all experiments have   *)
(* the dataframe, so that every load succeeds.                             *)
(***************************************************************************)
\* the dicts a caller gives: any of color and color_discrete_sequence set
KwargsArgs ==
  { NotGiven, Given(EmptyDict), Given([color |-> "a"]),
    Given([color_discrete_sequence |-> <<0>>]),
    Given([color |-> "a", color_discrete_sequence |-> <<0>>]) }

InitWidgets ==
  /\ store = [e \in Exps |-> [has |-> TRUE, cols |-> <<"b", "a">>, nrows |-> 1]]
  /\ widgets = [w \in Widgets |-> NoWidget]
  /\ default_kwargs = EmptyDict
  /\ ret = NoCall
  /\ pinned = NoPin

NextWidgets ==
  \/ \E w \in Widgets, experiments \in ListArgs \ {ListOf(<<>>)}, kwargs \in KwargsArgs :
       DataframePlot(w, experiments, kwargs, None, None)
  \/ \E w \in Widgets : load_experiment_data(w)

SpecWidgets == InitWidgets /\ [][NextWidgets]_vars

(***************************************************************************)
(* What a load is expected to leave, read off the store.  A state with     *)
(* ret.op = "load" is the state a load_experiment_data call has just left: *)
(* the store is the one the call has read.                                 *)
(***************************************************************************)
JustLoaded == ret.op = "load" /\ ~widgets[ret.w].experiments.none

\* the widget the last call was made on, and its experiments
Self == widgets[ret.w]

SelfList == Self.experiments.list

Present(list) == SelectSeq(list, LAMBDA e : store[e].has)

Missing(list) == SelectSeq(list, LAMBDA e : ~store[e].has)

RECURSIVE RowSum(_)
RowSum(list) ==
  IF list = <<>> THEN 0 ELSE store[Head(list)].nrows + RowSum(Tail(list))

\* where each row of the dataframes of `list` comes from, in append order
RECURSIVE Origins(_)
Origins(list) ==
  IF list = <<>> THEN <<>>
  ELSE [k \in 1..store[Head(list)].nrows |-> <<Head(list), k>>] \o Origins(Tail(list))

OriginsOf(df) == [i \in 1..Len(df.rows) |-> <<df.rows[i].src, df.rows[i].k>>]

SameSchema(list) ==
  \A i, j \in 1..Len(list) : store[list[i]].cols = store[list[j]].cols

\* the loop went through all experiments
LoopCompleted == ret.raised.type \notin {"IndexError", "TypeError"}

(***************************************************************************)
(* C1: after load_experiment_data succeeds on experiments that all have    *)
(* the named dataframe with the same schema, data_df has as many rows as   *)
(* the experiments' dataframes have together, and the experiment_id of     *)
(* every row is the id of the experiment whose dataframe the row came      *)
(* from.                                                                   *)
(***************************************************************************)
C1_RowCountAndProvenance ==
  ( /\ JustLoaded
    /\ ret.raised = NoError
    /\ Missing(SelfList) = <<>>
    /\ SameSchema(SelfList) )
  => /\ ~Self.data_df.none
     /\ Len(Self.data_df.rows) = RowSum(SelfList)
     /\ \A i \in 1..Len(Self.data_df.rows) :
          Self.data_df.rows[i].experiment_id = IdOf(Self.data_df.rows[i].src)
     /\ \A e \in Exps :
          Cardinality({ i \in 1..Len(Self.data_df.rows) : Self.data_df.rows[i].src = e })
            = IF SeqContains(SelfList, e) THEN store[e].nrows ELSE 0

\* two experiments with the same schema and different numbers of rows loaded
C1_Witness ==
  /\ JustLoaded
  /\ ret.raised = NoError
  /\ Missing(SelfList) = <<>>
  /\ SameSchema(SelfList)
  /\ Len(SelfList) >= 2
  /\ store[SelfList[1]].nrows # store[SelfList[2]].nrows
  /\ store[SelfList[1]].nrows > 0 /\ store[SelfList[2]].nrows > 0
  /\ Len(Self.data_df.rows) = RowSum(SelfList)

(***************************************************************************)
(* C2 as stated: when some but not all experiments lack the named          *)
(* dataframe, load_experiment_data does not raise, has recorded one        *)
(* warning for each experiment whose fetch failed, and data_df holds the   *)
(* rows of exactly the experiments that have the dataframe.                *)
(***************************************************************************)
SomeButNotAllMissing ==
  JustLoaded /\ Missing(SelfList) # <<>> /\ Present(SelfList) # <<>>

WarningsFor(list) == [i \in 1..Len(list) |-> Warning(IdOf(list[i]))]

C3_NoDataFound ==
  (JustLoaded /\ Present(SelfList) = <<>>)
  => /\ ret.raised = NoDataFound(dataframe_name)
     /\ Self.data_df.none

\* a load that finds no dataframe, on a widget whose y an earlier load had
\* inferred from a dataframe it had put in data_df
C3_Witness ==
  /\ JustLoaded
  /\ SelfList # <<>>
  /\ Present(SelfList) = <<>>
  /\ ret.raised = NoDataFound(dataframe_name)
  /\ Self.data_df.none
  /\ Self.arg_y = None /\ Self.y # None

(***************************************************************************)
(* C4 as stated: after a successful load, x is the x given to the          *)
(* constructor, or else the first column name of the first dataframe       *)
(* loaded, and y is the y given, or else the second column name of that    *)
(* dataframe: columns of the dataframe's own, however many it has.         *)
(***************************************************************************)
C4_Original ==
  (JustLoaded /\ ret.raised = NoError)
  => LET cols == store[Present(SelfList)[1]].cols IN
     /\ Self.arg_x # None => Self.x = Self.arg_x
     /\ Self.arg_x = None
        => /\ SeqContains(cols, Self.x)
           /\ Len(cols) >= 1 => Self.x = cols[1]
     /\ Self.arg_y # None => Self.y = Self.arg_y
     /\ Self.arg_y = None
        => /\ SeqContains(cols, Self.y)
           /\ Len(cols) >= 2 => Self.y = cols[2]

(***************************************************************************)
(* C10 as stated: when at least one experiment has the named dataframe but *)
(* the combined table is empty, load_experiment_data raises the same       *)
(* Exception("No dataframe with name <name> found!") as when no experiment *)
(* has the dataframe, and no other kind of error.                          *)
(***************************************************************************)
C10_Original ==
  ( /\ JustLoaded
    /\ LoopCompleted
    /\ ~Self.data_df.none
    /\ IsEmpty(Self.data_df) )
  => ret.raised = NoDataFound(dataframe_name)

(***************************************************************************)
(* What a render is expected to return.  A state with ret.op = "render" is *)
(* the state an update_dataframe_plot call has just left, ret.sel being    *)
(* the selection it was given.                                             *)
(***************************************************************************)
Rendered == ret.op = "render" /\ ret.raised = NoError

Linked == Self.callback = "linked"

\* the active experiment identifiers of the render
ActiveIds ==
  IF Linked THEN (IF ret.sel.none THEN <<>> ELSE ret.sel.list)
  ELSE [i \in 1..Len(SelfList) |-> IdOf(SelfList[i])]

(***************************************************************************)
(* C6: every render returns the header text "showing dataframe '<name>'    *)
(* over k experiment", followed by "s" exactly when k # 1, k being the     *)
(* number of active experiment identifiers: with the table linked and an   *)
(* empty or absent selection, k = 0, the text ends "over 0 experiments"    *)
(* and the chart is drawn from zero rows; with a selection of exactly one  *)
(* identifier the text ends "over 1 experiment".                           *)
(***************************************************************************)
C6_HeaderText ==
  Rendered
  => LET k == Len(ActiveIds) IN
     /\ ret.header = <<"showing dataframe '", dataframe_name, "' over ", k,
                       " experiment", IF k = 1 THEN "" ELSE "s">>
     /\ (Linked /\ (ret.sel.none \/ ret.sel.list = <<>>))
        => /\ SubSeq(ret.header, 4, 6) = <<0, " experiment", "s">>
           /\ ret.figure.table.rows = <<>>
     /\ (Linked /\ ~ret.sel.none /\ Len(ret.sel.list) = 1)
        => SubSeq(ret.header, 4, 6) = <<1, " experiment", "">>

\* a render of a linked widget with a table of several rows, given the
\* empty selection
C6_Witness ==
  /\ Rendered
  /\ Linked
  /\ ret.sel = ListOf(<<>>)
  /\ Len(Self.data_df.rows) > 1
  /\ ret.figure.table.rows = <<>>
  /\ ret.header = <<"showing dataframe '", dataframe_name, "' over ", 0,
                    " experiment", "s">>

(***************************************************************************)
(* C7: in the figure a render returns, every series name is the first 7    *)
(* characters of the name the plotting routine produced, so none is longer *)
(* than 7 characters.                                                      *)
(***************************************************************************)
\* the series names the plotting routine produced for the render
ProducedNames ==
  PlottingFunc(IsIn(Self.data_df, ActiveIds), Self.x, Self.y, KwargsOf(Self)).names

C7_LegendNames ==
  Rendered
  => /\ Len(ret.figure.names) = Len(ProducedNames)
     /\ \A i \in 1..Len(ret.figure.names) :
          LET name == ret.figure.names[i]
              produced == ProducedNames[i]
          IN  /\ Len(name) <= 7
              /\ Len(name) = IF Len(produced) < 7 THEN Len(produced) ELSE 7
              /\ \A j \in 1..Len(name) : name[j] = produced[j]

\* a figure with a series whose produced name was longer than 7 characters
\* and one whose produced name was not
C7_Witness ==
  /\ Rendered
  /\ \E i \in 1..Len(ProducedNames) :
       Len(ProducedNames[i]) > 7 /\ Len(ret.figure.names[i]) = 7
  /\ \E i \in 1..Len(ProducedNames) :
       Len(ProducedNames[i]) <= 7 /\ ret.figure.names[i] = ProducedNames[i]

(***************************************************************************)
(* C8: after a successful load, a render leaves the combined table, x, y   *)
(* and the plotting options unchanged, and a render given the selection of *)
(* the first render returns the first render's figure and header text,     *)
(* whichever renders with other selections happened in between.            *)
(***************************************************************************)
C8_RenderIsPure ==
  /\ [][ret'.op = "render" => (widgets' = widgets /\ default_kwargs' = default_kwargs)]_vars
  /\ []( (Rendered /\ pinned.set /\ pinned.w = ret.w /\ pinned.sel = ret.sel)
         => (ret.figure = pinned.figure /\ ret.header = pinned.header) )

\* a render given the first render's selection, of which the table has
\* only a part of the rows, after a render given another selection
C8_Witness ==
  /\ Rendered
  /\ pinned.set /\ pinned.w = ret.w /\ pinned.sel = ret.sel
  /\ pinned.others
  /\ ret.figure = pinned.figure
  /\ ret.figure.table.rows # <<>>
  /\ Len(ret.figure.table.rows) < Len(Self.data_df.rows)

(***************************************************************************)
(* C9: the table a render hands to the plotting routine is the rows of the *)
(* combined table whose experiment_id is an active identifier, in the      *)
(* combined table's order: with the table linked the active identifiers    *)
(* are the selected ones (none when nothing is selected), and otherwise    *)
(* the ids of all the widget's experiments, so that every row of the       *)
(* combined table is plotted.                                              *)
(***************************************************************************)
C9_PlottedTable ==
  Rendered
  => /\ ret.figure.table =
          [Self.data_df EXCEPT !.rows =
             SelectSeq(@, LAMBDA r : \E i \in 1..Len(ActiveIds) :
                                        ActiveIds[i] = r.experiment_id)]
     /\ ~Linked => ret.figure.table = Self.data_df
     /\ (Linked /\ ret.sel.none) => ret.figure.table.rows = <<>>

\* a render of a linked widget given one of the two experiments that have
\* rows in the table
C9_Witness ==
  /\ Rendered
  /\ Linked
  /\ ~ret.sel.none /\ Len(ret.sel.list) = 1
  /\ ret.figure.table.rows # <<>>
  /\ Len(ret.figure.table.rows) < Len(Self.data_df.rows)
  /\ \A i \in 1..Len(ret.figure.table.rows) :
       ret.figure.table.rows[i].experiment_id = ret.sel.list[1]

(***************************************************************************)
(* C5 as stated: after a load on a widget, whatever widgets were           *)
(* constructed and loaded before, an option the caller gave is unchanged,  *)
(* color is "experiment_id" if the caller did not give it, and             *)
(* color_discrete_sequence is the default colour sequence for the number   *)
(* of that widget's experiments if the caller did not give it.             *)
(***************************************************************************)
C5_Original ==
  (JustLoaded /\ LoopCompleted)
  => LET kwargs == KwargsOf(Self)
         given == Self.arg_kwargs
     IN  /\ \A key \in DOMAIN given : key \in DOMAIN kwargs /\ kwargs[key] = given[key]
         /\ "color" \notin DOMAIN given
            => "color" \in DOMAIN kwargs /\ kwargs["color"] = "experiment_id"
         /\ "color_discrete_sequence" \notin DOMAIN given
            => /\ "color_discrete_sequence" \in DOMAIN kwargs
               /\ kwargs["color_discrete_sequence"]
                    = get_rubicon_colorscale(Len(SelfList))

============================================================================
